---- MODULE Spec2Model ----
(***************************************************************************)
(* The worker side of react_wasm_sqlite_step2 (src/src/database.ts): the   *)
(* process-wide connection `db`, the `objectStore` registry of prepared    *)
(* statements, and the wrappers exposed to the UI thread through Comlink.  *)
(* database.ts holds two versions of the worker: lines 1-170 key the       *)
(* registry by JSON.stringify(stmt) and offer closeDB/stepReset/finalize,  *)
(* lines 172-335 key it by stmt.pointer and offer stepFinalize.  `variant` *)
(* says which of the two is loaded.  The SQLite engine (oo1 API) is        *)
(* modelled as far as the wrappers observe it.                             *)
(***************************************************************************)
EXTENDS Integers, Sequences, FiniteSets, TLC

VARIABLES
    variant,      \* "snapshot" (database.ts 1-170) or "pointer" (172-335)
    opfs,         \* 'opfs' in sqlite3: the persistent store is available
    db,           \* let db: Database | null
    objectStore,  \* handle -> statement (index into stmts)
    pending,      \* connect calls suspended at `await sqlite3InitModule`
    initCount,    \* calls of sqlite3InitModule made so far
    connState,    \* engine: every connection ever opened, "open"/"closed"
    connKind,     \* engine: the class each connection was constructed with
    stmts,        \* engine: every statement ever prepared, in creation order
    tables,       \* engine: the users table of every database file
    trail,        \* history: per handle, how far prepare -> bind has got
    app,          \* the foreground: one record per click of a button
    last          \* history: the wrapper call serviced last and its outcome

vars == <<variant, opfs, db, objectStore, pending, initCount, connState, connKind,
          stmts, tables, trail, app, last>>

-----------------------------------------------------------------------------
(* Bounds of the model *)

\* Engine resources one run may create: initialisations, prepared statements
\* and table rows, counted together.
MaxWork == 3

\* Clicks of the foreground's buttons in one run.
MaxClicks == 3
Clicks == 1..MaxClicks

\* A click initialises the engine at most once and prepares at most two
\* statements.
Null == 0
ConnIds == 1..(MaxWork + MaxClicks)
StoreIds == 0..(MaxWork + MaxClicks)
Ptrs == 1..(MaxWork + 2 * MaxClicks)

-----------------------------------------------------------------------------
(* Values crossing the wrappers *)

\* The statements App.tsx sends.
SqlCreate == "CREATE TABLE IF NOT EXISTS users(id INTEGER, name TEXT)"
SqlInsert == "insert into users values(?,?)"
SqlSelectAll == "SELECT * FROM users"
SqlSelectMax == "SELECT max(id) as max_count FROM users"

\* Bind arrays: two that fit the insert statement, one with a value too many.
GoodBinds == {<<1, "Alice">>, <<2, "Bob">>}
LongBind == <<1, "Alice", "extra">>
BindSpecs == GoodBinds \cup {LongBind}
NullRow == <<0, "NULL">>

\* What a wrapper throws.
Error == "Error"                \* throw new Error()
TypeError == "TypeError"        \* a method read off undefined / a non-method called
SQLite3Error == "SQLite3Error"  \* thrown by the engine

\* What a wrapper returns.
RetDatabase(c) == [t |-> "Database", id |-> c]
RetHandle(h) == [t |-> "handle", h |-> h]
RetNumber(n) == [t |-> "number", n |-> n]
RetBoolean(b) == [t |-> "boolean", b |-> b]
RetRows(r) == [t |-> "rows", rows |-> r]
RetUndefined == [t |-> "undefined"]
RetNull == [t |-> "null"]
RetNone == [t |-> "none"]

InitWorker ==
    /\ variant \in {"snapshot", "pointer"}
    /\ opfs \in BOOLEAN
    /\ db = Null
    /\ objectStore = <<>>
    /\ pending = 0
    /\ initCount = 0
    /\ connState = [c \in ConnIds |-> "unused"]
    /\ connKind = [c \in ConnIds |-> "none"]
    /\ stmts = <<>>
    /\ tables = [s \in StoreIds |-> [exists |-> FALSE, rows |-> <<>>]]
    /\ trail = <<>>
    /\ last = [op |-> "none", outcome |-> "ok", ret |-> RetNone]

\* The worker alone, called by any client: no foreground is attached.
NoApp == <<>>
Init == InitWorker /\ app = NoApp

-----------------------------------------------------------------------------
(* The engine, as far as the wrappers observe it *)

RECURSIVE SumRows(_)
SumRows(S) ==
    IF S = {} THEN 0
    ELSE LET s == CHOOSE x \in S : TRUE IN Len(tables[s].rows) + SumRows(S \ {s})

\* The resources created so far; an operation that creates one more is taken
\* only while Work < MaxWork; an attached foreground bounds its work by its
\* clicks instead.
Work == initCount + Len(stmts) + SumRows(StoreIds)
WithinBudget == app # NoApp \/ Work < MaxWork

\* Every sqlite3InitModule() call instantiates the engine anew.  With OPFS all
\* connections open the one persistent file /mydb.sqlite3; without it each
\* engine instance has a transient file of its own.
StoreOf(c) == IF connKind[c] = "OpfsDb" THEN 0 ELSE c

\* The next connection object `new sqlite3.oo1.OpfsDb/DB` creates.
FreshConn == CHOOSE c \in ConnIds : connState[c] = "unused" /\ \A d \in ConnIds : d < c => connState[d] # "unused"

\* What sqlite3InitModule or the DB constructor throws, if anything.
Thrown == {"nothing", "anError", "notAnError"}

\* A statement is "open" until Stmt.finalize ("finalized") or the close of its
\* connection ("closed") releases it.
IsOpen(st) == st.state = "open"

\* DB.close(): finalizes the statements still open on the connection.
EngineClose(c) ==
    /\ connState' = [connState EXCEPT ![c] = "closed"]
    /\ UNCHANGED connKind
    /\ stmts' = [i \in DOMAIN stmts |->
                    IF stmts[i].conn = c /\ IsOpen(stmts[i])
                    THEN [stmts[i] EXCEPT !.state = "closed"] ELSE stmts[i]]

RECURSIVE MaxId(_)
\* max(id) over the rows; NULL (0) for no row or only NULL ids.
MaxId(rows) ==
    IF rows = <<>> THEN 0
    ELSE LET m == MaxId(Tail(rows)) IN IF Head(rows)[1] > m THEN Head(rows)[1] ELSE m

\* The second argument of exec: `{}` when the caller gives none, or the
\* options object {returnValue: 'resultRows'}.
DefaultOpts == [returnValue |-> "this"]
RowsOpts == [returnValue |-> "resultRows"]

\* The arguments of exec: the first is a bare string (which has no bind and no
\* returnValue of its own) or one object, as App.tsx sends them; the second is
\* the options.  The last two are the select written each in the other shape.
ExecRequests ==
    {[form |-> "string", sql |-> SqlCreate, bind |-> <<>>, returnValue |-> "this",
      opts |-> DefaultOpts]}
    \cup {[form |-> "object", sql |-> SqlInsert, bind |-> b, returnValue |-> "this",
           opts |-> DefaultOpts] : b \in GoodBinds}
    \cup {[form |-> "object", sql |-> SqlSelectAll, bind |-> <<>>, returnValue |-> "resultRows",
           opts |-> DefaultOpts]}
    \cup {[form |-> "string", sql |-> SqlSelectAll, bind |-> <<>>, returnValue |-> "this",
           opts |-> RowsOpts]}
    \cup {[form |-> "object", sql |-> SqlSelectAll, bind |-> <<>>, returnValue |-> "this",
           opts |-> RowsOpts]}

\* DB.exec on connection c: [err, tables, ret].
EngineExec(c, req) ==
    LET s == StoreOf(c)
        t == tables[s]
    IN  IF req.sql = SqlCreate
        THEN [err |-> "none", tables |-> [tables EXCEPT ![s].exists = TRUE], ret |-> RetDatabase(c)]
        ELSE IF ~t.exists
        THEN [err |-> SQLite3Error, tables |-> tables, ret |-> RetNone]
        ELSE IF req.sql = SqlInsert
        THEN [err |-> "none",
              tables |-> [tables EXCEPT ![s].rows = Append(@, req.bind)],
              ret |-> RetDatabase(c)]
        ELSE [err |-> "none", tables |-> tables,
              ret |-> IF req.returnValue = "resultRows" THEN RetRows(t.rows) ELSE RetDatabase(c)]

\* DB.exec called with argc arguments, the first being the value `first` and
\* the second (when argc = 2) `second`.  With two arguments the first is the
\* SQL and the second the options; with one, a string is the SQL and an object
\* carries both the SQL and the options.  An object given where the SQL is
\* expected is not SQL.
DBexec(c, argc, first, second) ==
    IF argc = 2
    THEN IF first.form = "string"
         THEN EngineExec(c, [sql |-> first.sql, bind |-> <<>>,
                             returnValue |-> second.returnValue])
         ELSE [err |-> SQLite3Error, tables |-> tables, ret |-> RetNone]
    ELSE IF first.form = "string"
         THEN EngineExec(c, [sql |-> first.sql, bind |-> <<>>, returnValue |-> "this"])
         ELSE EngineExec(c, [sql |-> first.sql, bind |-> first.bind,
                             returnValue |-> first.returnValue])

\* DB.selectValue(SqlSelectMax) on connection c: [err, ret].
EngineSelectValue(c) ==
    LET t == tables[StoreOf(c)]
    IN  IF ~t.exists THEN [err |-> SQLite3Error, ret |-> RetNone]
        ELSE IF MaxId(t.rows) = 0 THEN [err |-> "none", ret |-> RetNull]
        ELSE [err |-> "none", ret |-> RetNumber(MaxId(t.rows))]

-----------------------------------------------------------------------------
(* Prepared statements, as the engine keeps them *)

PrepareSqls == {SqlInsert}
ParameterCount(sql) == IF sql = SqlInsert THEN 2 ELSE 0

\* Addresses the engine may give a new statement on connection c: any that no
\* open statement of the same engine instance occupies.  Addresses are named
\* in the order of their first use.
FreePtrs(c) == {p \in Ptrs :
                    /\ \A i \in DOMAIN stmts :
                          ~(stmts[i].conn = c /\ IsOpen(stmts[i]) /\ stmts[i].ptr = p)
                    /\ p = 1 \/ \E i \in DOMAIN stmts : stmts[i].ptr >= p - 1}

\* Stmt.bind(array) on statement st: [err, bound].  The values are bound one by
\* one; an index past parameterCount throws after the earlier ones were bound.
EngineBind(st, b) ==
    IF ~IsOpen(st) THEN [err |-> SQLite3Error, bound |-> st.bound]
    ELSE IF Len(b) > ParameterCount(st.sql)
    THEN [err |-> SQLite3Error, bound |-> <<b[1], b[2]>>]
    ELSE [err |-> "none", bound |-> b]

\* Stmt.step() of an insert statement: the row of the bound values is added.
EngineStep(st) == [tables EXCEPT ![StoreOf(st.conn)].rows = Append(@, st.bound)]

-----------------------------------------------------------------------------
(* The registry *)

\* JSON.stringify(stmt): the own enumerable data properties of the Stmt object,
\* db (whose own property is filename) and parameterCount.  The statement's
\* address is an accessor of the prototype and is not serialized.
JSONstringify(st) ==
    IF ParameterCount(st.sql) = 2
    THEN "{\"db\":{\"filename\":\"/mydb.sqlite3\"},\"parameterCount\":2}"
    ELSE "{\"db\":{\"filename\":\"/mydb.sqlite3\"},\"parameterCount\":0}"

\* The handle prepare derives from the statement.
HandleOf(st) == IF variant = "snapshot" THEN JSONstringify(st) ELSE st.ptr

\* objectStore is a plain object literal: a key it does not own is looked up in
\* Object.prototype, where "constructor" is a function.
InheritedKeys == {"constructor"}

\* The handles a caller may pass: the strings (numbers) prepare can return,
\* and some it never returns.  An address no statement has had yet behaves as 0.
HandleInputs ==
    IF variant = "snapshot"
    THEN {JSONstringify([sql |-> SqlInsert]), "constructor", "no such handle"}
    ELSE {stmts[i].ptr : i \in DOMAIN stmts} \cup {0}

\* objectStore[handle]
Lookup(h) ==
    IF h \in DOMAIN objectStore THEN [t |-> "Stmt", id |-> objectStore[h]]
    ELSE IF variant = "snapshot" /\ h \in InheritedKeys THEN [t |-> "Function"]
    ELSE [t |-> "undefined"]

\* History of the calls on a registered handle: "prepared" once prepare has
\* returned it, "bound" (with the values) after a bind that directly follows,
\* "inserted" after a stepFinalize that directly follows that, else "other".
Phase(p, v) == [phase |-> p, values |-> v]
SetTrail(h, t) == trail' = IF h \in DOMAIN trail THEN [trail EXCEPT ![h] = t] ELSE trail

-----------------------------------------------------------------------------
(* The wrappers *)

\* A wrapper throws: nothing changes but the record of the call.
Throw(call, err) ==
    /\ last' = call @@ [outcome |-> err, ret |-> RetNone]
    /\ UNCHANGED <<variant, opfs, db, objectStore, pending, initCount, connState, connKind,
                   stmts, tables, trail>>

\* A statement method throws: the registry is as it was.
ThrowOn(call, handle, err) ==
    /\ last' = call @@ [outcome |-> err, ret |-> RetNone]
    /\ SetTrail(handle, Phase("other", <<>>))

Return(call, ret) == last' = call @@ [outcome |-> "ok", ret |-> ret]

\* The mutant of connectDatabase: no `if (db) return db`.
connectDatabase_NoGuard ==
    /\ WithinBudget
    /\ initCount' = initCount + 1
    /\ pending' = pending + 1
    /\ last' = [op |-> "connect", outcome |-> "pending", ret |-> RetNone]
    /\ UNCHANGED <<variant, opfs, db, objectStore, connState, connKind, stmts, tables, trail>>

\* connectDatabase / connectDB up to the await: the guard, then the engine
\* initialisation is started and the call is suspended.
connectDatabase ==
    IF db # Null
    THEN /\ Return([op |-> "connect"], RetDatabase(db))
         /\ UNCHANGED <<variant, opfs, db, objectStore, pending, initCount, connState, connKind,
                        stmts, tables, trail>>
    ELSE /\ WithinBudget
         /\ initCount' = initCount + 1
         /\ pending' = pending + 1
         /\ last' = [op |-> "connect", outcome |-> "pending", ret |-> RetNone]
         /\ UNCHANGED <<variant, opfs, db, objectStore, connState, connKind, stmts, tables, trail>>

\* A mutant of openDB: `new sqlite3.oo1.DB(...)` without the test for OPFS.
openDB_AlwaysTransient ==
    /\ db' = FreshConn
    /\ connState' = [connState EXCEPT ![FreshConn] = "open"]
    /\ connKind' = [connKind EXCEPT ![FreshConn] = "DB"]

\* openDB (connectDB in the first version): opens the database and assigns db.
openDB ==
    /\ db' = FreshConn
    /\ connState' = [connState EXCEPT ![FreshConn] = "open"]
    /\ connKind' = [connKind EXCEPT ![FreshConn] = IF opfs THEN "OpfsDb" ELSE "DB"]

\* connectDatabase / connectDB from the await on: a suspended call resumes when
\* the initialisation settles.
connectResume(initThrows, openThrows) ==
    /\ pending > 0
    /\ pending' = pending - 1
    /\ IF initThrows = "nothing" /\ openThrows = "nothing"
       THEN /\ openDB
            /\ Return([op |-> "connectResume"], RetDatabase(db'))
       ELSE /\ UNCHANGED <<db, connState, connKind>>
            /\ LET thrown == IF initThrows # "nothing" THEN initThrows ELSE openThrows
               IN  last' = [op |-> "connectResume", ret |-> RetNone,
                            outcome |-> IF thrown = "anError" THEN "InitError"
                                        ELSE "Error: unknown error"]
    /\ UNCHANGED <<variant, opfs, objectStore, initCount, stmts, tables, trail>>

\* A mutant of closeDB: db?.close() without `db = null`.
closeDB_KeepsRef ==
    /\ variant = "snapshot"
    /\ IF db # Null THEN EngineClose(db) ELSE UNCHANGED <<connState, connKind, stmts>>
    /\ Return([op |-> "close", released |-> db], RetUndefined)
    /\ UNCHANGED <<variant, opfs, db, objectStore, pending, initCount, tables, trail>>

\* A mutant of closeDB: db.close() instead of db?.close().
closeDB_NoOptionalCall ==
    /\ variant = "snapshot"
    /\ IF db # Null
       THEN /\ EngineClose(db)
            /\ db' = Null
            /\ Return([op |-> "close", released |-> db], RetUndefined)
            /\ UNCHANGED <<variant, opfs, objectStore, pending, initCount, tables, trail>>
       ELSE Throw([op |-> "close", released |-> db], TypeError)

\* closeDB: db?.close(); db = null.
closeDB ==
    /\ variant = "snapshot"
    /\ IF db # Null THEN EngineClose(db) ELSE UNCHANGED <<connState, connKind, stmts>>
    /\ db' = Null
    /\ Return([op |-> "close", released |-> db], RetUndefined)
    /\ UNCHANGED <<variant, opfs, objectStore, pending, initCount, tables, trail>>

\* What exec does once it has chosen the arity of the call to db.exec.
execCall(req, argc) ==
    LET call == [op |-> "exec", req |-> req, argc |-> argc]
        r == DBexec(db, argc, req, req.opts)
    IN   IF r.err # "none" THEN Throw(call, r.err)
         ELSE /\ (req.sql = SqlInsert) => WithinBudget
              /\ tables' = r.tables
              /\ Return(call, r.ret)
              /\ UNCHANGED <<variant, opfs, db, objectStore, pending, initCount,
                             connState, connKind, stmts, trail>>

\* A mutant of exec: `return db.exec(sql, opts)` whatever the first argument is.
exec_AlwaysTwoArgs(req) ==
    IF db = Null THEN Throw([op |-> "exec", req |-> req], Error)
    ELSE execCall(req, 2)

exec(req) ==
    IF db = Null THEN Throw([op |-> "exec", req |-> req], Error)
    ELSE IF req.form = "string" THEN execCall(req, 2)
    ELSE execCall(req, 1)

selectValue ==
    LET call == [op |-> "selectValue"] IN
    IF db = Null THEN Throw(call, Error)
    ELSE LET r == EngineSelectValue(db) IN
         IF r.err # "none" THEN Throw(call, r.err)
         ELSE /\ Return(call, r.ret)
              /\ UNCHANGED <<variant, opfs, db, objectStore, pending, initCount,
                             connState, connKind, stmts, tables, trail>>

prepare(sql) ==
    LET call == [op |-> "prepare"] IN
    IF db = Null THEN Throw(call, Error)
    ELSE IF ~tables[StoreOf(db)].exists THEN Throw(call, SQLite3Error)
    ELSE /\ WithinBudget
         /\ \E p \in FreePtrs(db) :
              LET st == [conn |-> db, sql |-> sql, ptr |-> p, bound |-> NullRow,
                         state |-> "open"]
                  handle == HandleOf(st)
              IN  /\ stmts' = Append(stmts, st @@ [handle |-> handle])
                  /\ objectStore' = [k \in DOMAIN objectStore \cup {handle} |->
                                        IF k = handle THEN Len(stmts) + 1 ELSE objectStore[k]]
                  /\ trail' = [k \in DOMAIN trail \cup {handle} |->
                                  IF k = handle THEN Phase("prepared", <<>>) ELSE trail[k]]
                  /\ Return(call, RetHandle(handle))
         /\ UNCHANGED <<variant, opfs, db, pending, initCount, connState, connKind, tables>>

\* binding from `const stmt = objectStore[handle]` on.
bindingBody(handle, b) ==
    LET call == [op |-> "bind", h |-> handle]
        stmt == Lookup(handle)
    IN  IF stmt.t = "undefined" THEN Throw(call, TypeError)
        ELSE IF stmt.t = "Function"
        THEN /\ Return(call, RetHandle(handle))
             /\ UNCHANGED <<variant, opfs, db, objectStore, pending, initCount, connState, connKind,
                            stmts, tables, trail>>
        ELSE LET r == EngineBind(stmts[stmt.id], b) IN
             /\ stmts' = [stmts EXCEPT ![stmt.id].bound = r.bound]
             /\ IF r.err # "none"
                THEN ThrowOn(call, handle, r.err)
                ELSE /\ Return(call, RetHandle(handle))
                     /\ SetTrail(handle, IF trail[handle].phase = "prepared"
                                         THEN Phase("bound", b) ELSE Phase("other", <<>>))
             /\ UNCHANGED <<variant, opfs, db, objectStore, pending, initCount, connState, connKind,
                            tables>>

\* A mutant of binding: no `if (!db) throw new Error()`.
binding_NoGuard(handle, b) == bindingBody(handle, b)

binding(handle, b) ==
    IF db = Null THEN Throw([op |-> "bind", h |-> handle], Error)
    ELSE bindingBody(handle, b)

\* A mutant of stepReset: the wrapper remembers the calls made on a handle and
\* rejects a step that does not follow a bind.
stepReset_RequiresBind(handle) ==
    LET call == [op |-> "stepReset", h |-> handle]
        stmt == Lookup(handle)
    IN  /\ variant = "snapshot"
        /\ IF db = Null THEN Throw(call, Error)
           ELSE IF stmt.t # "Stmt" THEN Throw(call, TypeError)
           ELSE IF trail[handle].phase # "bound" THEN Throw(call, Error)
           ELSE IF ~IsOpen(stmts[stmt.id])
           THEN /\ ThrowOn(call, handle, SQLite3Error)
                /\ UNCHANGED <<variant, opfs, db, objectStore, pending, initCount,
                               connState, connKind, stmts, tables>>
           ELSE /\ WithinBudget
                /\ tables' = EngineStep(stmts[stmt.id])
                /\ Return(call, RetHandle(handle))
                /\ SetTrail(handle, Phase("other", <<>>))
                /\ UNCHANGED <<variant, opfs, db, objectStore, pending, initCount,
                               connState, connKind, stmts>>

\* A mutant of stepReset: `return stmt.stepReset()` instead of `return handle`.
stepReset_ReturnsStmt(handle) ==
    LET call == [op |-> "stepReset", h |-> handle]
        stmt == Lookup(handle)
    IN  /\ variant = "snapshot"
        /\ IF db = Null THEN Throw(call, Error)
           ELSE IF stmt.t # "Stmt" THEN Throw(call, TypeError)
           ELSE IF ~IsOpen(stmts[stmt.id])
           THEN /\ ThrowOn(call, handle, SQLite3Error)
                /\ UNCHANGED <<variant, opfs, db, objectStore, pending, initCount,
                               connState, connKind, stmts, tables>>
           ELSE /\ WithinBudget
                /\ tables' = EngineStep(stmts[stmt.id])
                /\ Return(call, [t |-> "PreparedStatement", id |-> stmt.id])
                /\ SetTrail(handle, Phase("other", <<>>))
                /\ UNCHANGED <<variant, opfs, db, objectStore, pending, initCount,
                               connState, connKind, stmts>>

stepReset(handle) ==
    LET call == [op |-> "stepReset", h |-> handle]
        stmt == Lookup(handle)
    IN  /\ variant = "snapshot"
        /\ IF db = Null THEN Throw(call, Error)
           ELSE IF stmt.t # "Stmt" THEN Throw(call, TypeError)
           ELSE IF ~IsOpen(stmts[stmt.id])
           THEN /\ ThrowOn(call, handle, SQLite3Error)
                /\ UNCHANGED <<variant, opfs, db, objectStore, pending, initCount,
                               connState, connKind, stmts, tables>>
           ELSE /\ WithinBudget
                /\ tables' = EngineStep(stmts[stmt.id])
                /\ Return(call, RetHandle(handle))
                /\ SetTrail(handle, Phase("other", <<>>))
                /\ UNCHANGED <<variant, opfs, db, objectStore, pending, initCount,
                               connState, connKind, stmts>>

\* A mutant of finalize: the entry is deleted from objectStore after finalize().
finalize_Deletes(handle) ==
    LET call == [op |-> "finalize", h |-> handle]
        stmt == Lookup(handle)
    IN  /\ variant = "snapshot"
        /\ IF db = Null THEN Throw(call, Error)
           ELSE IF stmt.t # "Stmt" THEN Throw(call, TypeError)
           ELSE /\ stmts' = [stmts EXCEPT ![stmt.id].state =
                                IF IsOpen(stmts[stmt.id]) THEN "finalized" ELSE @]
                /\ objectStore' = [k \in DOMAIN objectStore \ {handle} |-> objectStore[k]]
                /\ Return(call, IF IsOpen(stmts[stmt.id]) THEN RetNumber(0) ELSE RetUndefined)
                /\ SetTrail(handle, Phase("other", <<>>))
                /\ UNCHANGED <<variant, opfs, db, pending, initCount, connState, connKind, tables>>

finalize(handle) ==
    LET call == [op |-> "finalize", h |-> handle]
        stmt == Lookup(handle)
    IN  /\ variant = "snapshot"
        /\ IF db = Null THEN Throw(call, Error)
           ELSE IF stmt.t # "Stmt" THEN Throw(call, TypeError)
           ELSE /\ stmts' = [stmts EXCEPT ![stmt.id].state =
                                IF IsOpen(stmts[stmt.id]) THEN "finalized" ELSE @]
                /\ Return(call, IF IsOpen(stmts[stmt.id]) THEN RetNumber(0) ELSE RetUndefined)
                /\ SetTrail(handle, Phase("other", <<>>))
                /\ UNCHANGED <<variant, opfs, db, objectStore, pending, initCount,
                               connState, connKind, tables>>

\* A mutant of stepFinalize: the entry is deleted from objectStore once the
\* statement is released.
stepFinalize_Deletes(handle) ==
    LET call == [op |-> "stepFinalize", h |-> handle]
        stmt == Lookup(handle)
    IN  /\ variant = "pointer"
        /\ IF db = Null THEN Throw(call, Error)
           ELSE IF stmt.t # "Stmt" THEN Throw(call, TypeError)
           ELSE IF ~IsOpen(stmts[stmt.id])
           THEN /\ ThrowOn(call, handle, SQLite3Error)
                /\ UNCHANGED <<variant, opfs, db, objectStore, pending, initCount,
                               connState, connKind, stmts, tables>>
           ELSE /\ WithinBudget
                /\ tables' = EngineStep(stmts[stmt.id])
                /\ stmts' = [stmts EXCEPT ![stmt.id].state = "finalized"]
                /\ objectStore' = [k \in DOMAIN objectStore \ {handle} |-> objectStore[k]]
                /\ Return(call, RetBoolean(FALSE))
                /\ SetTrail(handle, IF trail[handle].phase = "bound"
                                    THEN Phase("inserted", trail[handle].values)
                                    ELSE Phase("other", <<>>))
                /\ UNCHANGED <<variant, opfs, db, pending, initCount, connState, connKind>>

\* A mutant of stepFinalize: stmt.finalize() instead of stmt.stepFinalize().
stepFinalize_NoStep(handle) ==
    LET call == [op |-> "stepFinalize", h |-> handle]
        stmt == Lookup(handle)
    IN  /\ variant = "pointer"
        /\ IF db = Null THEN Throw(call, Error)
           ELSE IF stmt.t # "Stmt" THEN Throw(call, TypeError)
           ELSE /\ stmts' = [stmts EXCEPT ![stmt.id].state =
                                IF IsOpen(stmts[stmt.id]) THEN "finalized" ELSE @]
                /\ Return(call, IF IsOpen(stmts[stmt.id]) THEN RetNumber(0) ELSE RetUndefined)
                /\ SetTrail(handle, Phase("other", <<>>))
                /\ UNCHANGED <<variant, opfs, db, objectStore, pending, initCount,
                               connState, connKind, tables>>

stepFinalize(handle) ==
    LET call == [op |-> "stepFinalize", h |-> handle]
        stmt == Lookup(handle)
    IN  /\ variant = "pointer"
        /\ IF db = Null THEN Throw(call, Error)
           ELSE IF stmt.t # "Stmt" THEN Throw(call, TypeError)
           ELSE IF ~IsOpen(stmts[stmt.id])
           THEN /\ ThrowOn(call, handle, SQLite3Error)
                /\ UNCHANGED <<variant, opfs, db, objectStore, pending, initCount,
                               connState, connKind, stmts, tables>>
           ELSE /\ WithinBudget
                /\ tables' = EngineStep(stmts[stmt.id])
                /\ stmts' = [stmts EXCEPT ![stmt.id].state = "finalized"]
                /\ Return(call, RetBoolean(FALSE))
                /\ SetTrail(handle, IF trail[handle].phase = "bound"
                                    THEN Phase("inserted", trail[handle].values)
                                    ELSE Phase("other", <<>>))
                /\ UNCHANGED <<variant, opfs, db, objectStore, pending, initCount,
                               connState, connKind>>

-----------------------------------------------------------------------------
(* The worker services one message at a time; a suspended connect resumes   *)
(* as a step of its own.                                                    *)

Next ==
    \/ connectDatabase /\ UNCHANGED app
    \/ \E i \in Thrown, o \in Thrown : connectResume(i, o) /\ UNCHANGED app
    \/ closeDB /\ UNCHANGED app
    \/ \E req \in ExecRequests : exec(req) /\ UNCHANGED app
    \/ selectValue /\ UNCHANGED app
    \/ \E sql \in PrepareSqls : prepare(sql) /\ UNCHANGED app
    \/ \E h \in HandleInputs, b \in BindSpecs : binding(h, b) /\ UNCHANGED app
    \/ \E h \in HandleInputs : stepReset(h) /\ UNCHANGED app
    \/ \E h \in HandleInputs : finalize(h) /\ UNCHANGED app
    \/ \E h \in HandleInputs : stepFinalize(h) /\ UNCHANGED app

Spec == Init /\ [][Next]_vars

-----------------------------------------------------------------------------------------------------------------------------------------------------
(* The foreground.  App.tsx calls the worker of the first version ("snapshot"), *)
(* the App of the later version the worker that has stepFinalize ("pointer").  *)
(* Every click starts a handler of its own.  A handler posts a call to the     *)
(* worker and goes on, with its next call, when the answer has been delivered; *)
(* calls reach the worker, and answers the foreground, in the order they were  *)
(* posted.  app.hs holds the handlers, app.inbox the handlers whose call the   *)
(* worker has not serviced yet, and app.outbox those whose answer the          *)
(* foreground has not taken yet.                                               *)

workerVars == <<variant, opfs, db, objectStore, pending, initCount, connState, connKind,
                stmts, tables, trail, last>>

NoRes == [outcome |-> "none", ret |-> RetNone]
Idle == [pc |-> "idle", res |-> NoRes, max |-> 0, h1 |-> 0, h2 |-> 0]

InitApp ==
    /\ InitWorker
    /\ app = [hs |-> [k \in Clicks |-> Idle], inbox |-> <<>>, outbox |-> <<>>]

\* A mutant of the coalescing: `?? 1`.
NullishCoalesce_One(ret) == IF ret.t \in {"null", "undefined"} THEN 1 ELSE ret.n

\* `(await worker.selectValue(...)) ?? 0`
NullishCoalesce(ret) == IF ret.t \in {"null", "undefined"} THEN 0 ELSE ret.n

\* The arguments the handlers give exec.
CreateRequest ==
    [form |-> "string", sql |-> SqlCreate, bind |-> <<>>, returnValue |-> "this",
     opts |-> DefaultOpts]
InsertRequest(id) ==
    [form |-> "object", sql |-> SqlInsert, bind |-> <<id, "Alice" \o ToString(id)>>,
     returnValue |-> "this", opts |-> DefaultOpts]
SelectRequest ==
    [form |-> "object", sql |-> SqlSelectAll, bind |-> <<>>, returnValue |-> "resultRows",
     opts |-> DefaultOpts]

\* The next click is handled in the first record not yet used.
CanClick(k) == app.hs[k].pc = "idle" /\ \A j \in 1..(k - 1) : app.hs[j].pc # "idle"

\* The handler starts and posts its first call.
Post(k, call) == app' = [app EXCEPT !.hs[k].pc = call, !.inbox = Append(@, k)]

\* connectDB of the App begins: worker.connectDatabase() / worker.connectDB().
appClickConnect(k) ==
    /\ CanClick(k)
    /\ Post(k, "connect")
    /\ UNCHANGED workerVars

\* execute of the App begins: worker.selectValue(select_max).
appClickExecute(k) ==
    /\ CanClick(k)
    /\ Post(k, "selectMax")
    /\ UNCHANGED workerVars

\* The clean-up of the effect in App.tsx, when the component unmounts:
\* worker.closeDB().
appUnmount(k) ==
    /\ variant = "snapshot"
    /\ CanClick(k)
    /\ Post(k, "closeDB")
    /\ UNCHANGED workerVars

\* The call the worker takes next is the call `call` of handler k.
Serving(k, call) ==
    /\ app.inbox # <<>>
    /\ Head(app.inbox) = k
    /\ app.hs[k].pc = call

\* The worker has run the call to its end: the answer is posted.
Answer(k) ==
    app' = [app EXCEPT !.inbox = Tail(@), !.outbox = Append(@, k),
                       !.hs[k].res = [outcome |-> last'.outcome, ret |-> last'.ret]]

\* connectDatabase is serviced: it answers at once when db is set, and is
\* suspended at its await otherwise.
appConnect(k) ==
    /\ Serving(k, "connect")
    /\ connectDatabase
    /\ IF last'.outcome = "pending"
       THEN app' = [app EXCEPT !.inbox = Tail(@), !.hs[k].pc = "awaitInit"]
       ELSE Answer(k)

\* The initialisation a suspended connect waits for settles.
appConnectSettles(k, initThrows, openThrows) ==
    /\ app.hs[k].pc = "awaitInit"
    /\ connectResume(initThrows, openThrows)
    /\ app' = [app EXCEPT !.outbox = Append(@, k), !.hs[k].pc = "connect",
                          !.hs[k].res = [outcome |-> last'.outcome, ret |-> last'.ret]]

appCloseDB(k) == Serving(k, "closeDB") /\ closeDB /\ Answer(k)

appCreateTable(k) == Serving(k, "create") /\ exec(CreateRequest) /\ Answer(k)

appSelectMax(k) == Serving(k, "selectMax") /\ selectValue /\ Answer(k)

appInsert(k) == Serving(k, "insert") /\ exec(InsertRequest(app.hs[k].max + 1)) /\ Answer(k)

appPrepare1(k) == Serving(k, "prepare1") /\ prepare(SqlInsert) /\ Answer(k)

appPrepare2(k) == Serving(k, "prepare2") /\ prepare(SqlInsert) /\ Answer(k)

appBind1(k) ==
    /\ Serving(k, "bind1")
    /\ binding(app.hs[k].h1, <<app.hs[k].max + 2, "Bob" \o ToString(app.hs[k].max + 2)>>)
    /\ Answer(k)

appBind2(k) ==
    /\ Serving(k, "bind2")
    /\ binding(app.hs[k].h2, <<app.hs[k].max + 3, "Carol" \o ToString(app.hs[k].max + 3)>>)
    /\ Answer(k)

appStepFinalize1(k) == Serving(k, "step1") /\ stepFinalize(app.hs[k].h1) /\ Answer(k)

appStepFinalize2(k) == Serving(k, "step2") /\ stepFinalize(app.hs[k].h2) /\ Answer(k)

\* The rows are read and logged: the last call of execute in App.tsx, and
\* dumpUsers() in the later App.
appSelectAll(k) == Serving(k, "dump") /\ exec(SelectRequest) /\ Answer(k)

\* The call a handler makes after the call `call` has resolved ("done": none).
NextCall(call) ==
    CASE call = "connect"   -> "create"
      [] call = "create"    -> IF variant = "pointer" THEN "dump" ELSE "done"
      [] call = "selectMax" -> "insert"
      [] call = "insert"    -> IF variant = "pointer" THEN "prepare1" ELSE "dump"
      [] call = "prepare1"  -> "prepare2"
      [] call = "prepare2"  -> "bind1"
      [] call = "bind1"     -> "bind2"
      [] call = "bind2"     -> "step1"
      [] call = "step1"     -> "step2"
      [] call = "step2"     -> "dump"
      [] OTHER              -> "done"

\* The foreground takes the next answer: the handler that awaited it keeps what
\* it needs of the value and posts its next call.  A rejection is caught
\* nowhere and ends the handler.
appResume(k) ==
    /\ app.outbox # <<>>
    /\ Head(app.outbox) = k
    /\ LET h == app.hs[k]
           next == IF h.res.outcome = "ok" THEN NextCall(h.pc) ELSE "rejected"
           kept == [h EXCEPT !.pc = next, !.res = NoRes,
                             !.max = IF h.pc = "selectMax" /\ next # "rejected"
                                     THEN NullishCoalesce(h.res.ret) ELSE @,
                             !.h1 = IF h.pc = "prepare1" /\ next # "rejected"
                                    THEN h.res.ret.h ELSE @,
                             !.h2 = IF h.pc = "prepare2" /\ next # "rejected"
                                    THEN h.res.ret.h ELSE @]
       IN  app' = [app EXCEPT !.hs[k] = kept,
                              !.outbox = Tail(@),
                              !.inbox = IF next \in {"done", "rejected"} THEN @
                                        ELSE Append(@, k)]
    /\ UNCHANGED workerVars

NextApp ==
    \/ \E k \in Clicks : appClickConnect(k)
    \/ \E k \in Clicks : appClickExecute(k)
    \/ \E k \in Clicks : appUnmount(k)
    \/ \E k \in Clicks : appConnect(k)
    \/ \E k \in Clicks, i \in Thrown, o \in Thrown : appConnectSettles(k, i, o)
    \/ \E k \in Clicks : appCloseDB(k)
    \/ \E k \in Clicks : appCreateTable(k)
    \/ \E k \in Clicks : appSelectMax(k)
    \/ \E k \in Clicks : appInsert(k)
    \/ \E k \in Clicks : appPrepare1(k)
    \/ \E k \in Clicks : appPrepare2(k)
    \/ \E k \in Clicks : appBind1(k)
    \/ \E k \in Clicks : appBind2(k)
    \/ \E k \in Clicks : appStepFinalize1(k)
    \/ \E k \in Clicks : appStepFinalize2(k)
    \/ \E k \in Clicks : appSelectAll(k)
    \/ \E k \in Clicks : appResume(k)

SpecApp == InitApp /\ [][NextApp]_vars

-----
(* Properties.  A step is recognised by the record it leaves in last: every  *)
(* wrapper call, and every resumption of a suspended connect, writes one.    *)

\* The error classes of the specification, as the wrappers raise them: the
\* `if (!db) throw new Error()` guard, and the TypeError of calling a method
\* on the undefined that objectStore[handle] yields for a key it lacks.
NotConnectedError == Error
UnknownHandleError == TypeError

GuardedOps == {"exec", "selectValue", "prepare", "bind", "stepReset", "stepFinalize", "finalize"}
HandleOps == {"bind", "stepReset", "stepFinalize", "finalize"}

\* The handles prepare has returned so far.
Issued == {stmts[i].handle : i \in DOMAIN stmts}

\* The handles whose statement finalize or stepFinalize has released (and that
\* no later prepare has returned again for a statement still open).
FinalizedHandles ==
    {h \in Issued : /\ \E i \in DOMAIN stmts : stmts[i].handle = h /\ stmts[i].state = "finalized"
                    /\ \A i \in DOMAIN stmts : stmts[i].handle = h => stmts[i].state = "finalized"}

\* C1: connect() called with a connection open returns that connection and
\* starts no engine initialisation; a connect that had to initialise returns
\* the connection it stored, so a connect that follows returns the same one.
C1_ConnectReturnsOpenConnection ==
    [][ /\ (db # Null /\ last'.op = "connect")
            => /\ last'.outcome = "ok"
               /\ last'.ret = RetDatabase(db)
               /\ UNCHANGED <<db, initCount, pending, connState, connKind>>
        /\ (last'.op = "connectResume" /\ last'.outcome = "ok")
            => (db' # Null /\ last'.ret = RetDatabase(db')) ]_vars

\* C1 witness: a connect answered from the open connection, after the single
\* initialisation of the run.
C1_Witness ==
    /\ last.op = "connect" /\ last.outcome = "ok"
    /\ db # Null /\ last.ret = RetDatabase(db)
    /\ initCount = 1 /\ pending = 0

\* C2: with the reference empty (as close leaves it), connect starts a new
\* engine initialisation; the connection a connect returns is open, and the one
\* an initialising connect returns did not exist before, so it is never one
\* that was closed.
C2_ConnectAfterCloseReinitializes ==
    [][ /\ (db = Null /\ last'.op = "connect")
            => (last'.outcome = "pending" /\ initCount' = initCount + 1)
        /\ (last'.op = "connectResume" /\ last'.outcome = "ok")
            => /\ connState[last'.ret.id] = "unused"
               /\ connState'[last'.ret.id] = "open"
               /\ db' = last'.ret.id
        /\ (last'.op = "connect" /\ last'.outcome = "ok")
            => connState'[last'.ret.id] = "open" ]_vars

\* C2 witness: a connection was closed, and the connect called after that (the
\* only one in flight) has started the second initialisation of the run.
C2_Witness ==
    /\ last.op = "connect" /\ last.outcome = "pending"
    /\ initCount = 2 /\ pending = 1
    /\ db = Null /\ connState[1] = "closed"

\* C3: close() always returns; it leaves the reference empty and the registry
\* as it was, closes the connection that was open, and with no connection it
\* changes nothing at all (so a second close in a row changes nothing).
C3_CloseNeverFails ==
    [][ last'.op = "close"
        => /\ last'.outcome = "ok"
           /\ db' = Null
           /\ UNCHANGED <<objectStore, pending, initCount, tables>>
           /\ (db # Null => connState' = [connState EXCEPT ![db] = "closed"])
           /\ (db = Null => UNCHANGED <<connState, connKind, stmts>>) ]_vars

\* C3 witness: a close serviced with no connection, after an earlier close had
\* released one.
C3_Witness ==
    /\ last.op = "close" /\ last.outcome = "ok" /\ last.released = Null
    /\ db = Null
    /\ \E c \in ConnIds : connState[c] = "closed"

\* C4: with the reference empty, every other wrapper throws the guard's error
\* and neither the engine nor the registry is touched.
C4_NotConnectedRejected ==
    [][ (db = Null /\ last'.op \in GuardedOps)
        => /\ last'.outcome = NotConnectedError
           /\ UNCHANGED <<db, objectStore, connState, connKind, stmts, tables, pending, initCount,
                          trail>> ]_vars

\* C4 witness: a handle call rejected with the reference empty while the
\* registry holds an entry (the connection was closed after a prepare).
C4_Witness ==
    /\ last.op \in HandleOps /\ last.outcome = NotConnectedError
    /\ db = Null
    /\ last.h \in DOMAIN objectStore

\* C5 (as claimed): with a connection open, a handle call with a handle that no
\* prepare returned fails with UnknownHandleError and changes neither the
\* reference nor the registry.
C5_UnknownHandleRejected ==
    [][ (db # Null /\ last'.op \in HandleOps /\ last'.h \notin Issued)
        => /\ last'.outcome = UnknownHandleError
           /\ UNCHANGED <<db, objectStore>> ]_vars

\* C6 (as claimed): a finalized handle has no registry entry, and a later
\* handle call with it fails with UnknownHandleError.
C6_FinalizedHandleRejected ==
    [][ /\ (db # Null /\ last'.op \in HandleOps /\ last'.h \in FinalizedHandles)
            => last'.outcome = UnknownHandleError
        /\ FinalizedHandles' \cap DOMAIN objectStore' = {} ]_vars

\* C7 (as claimed): two statements prepared one after the other, both still
\* open, have two distinct handles, each mapped to its own statement.
C7_DistinctHandles ==
    \A i, j \in DOMAIN stmts :
        (i < j /\ stmts[i].sql = stmts[j].sql /\ IsOpen(stmts[i]) /\ IsOpen(stmts[j]))
        => /\ stmts[i].handle # stmts[j].handle
           /\ objectStore[stmts[i].handle] = i
           /\ objectStore[stmts[j].handle] = j

\* C8: stepFinalize(h) directly after bind(h, values) directly after the
\* prepare that returned h succeeds and adds exactly one row, the bound values,
\* to the users table of the statement's database.
C8_PrepareBindStepInsertsRow ==
    [][ (last'.op = "stepFinalize" /\ db # Null /\ last'.h \in DOMAIN trail
            /\ trail[last'.h].phase = "bound")
        => /\ last'.outcome = "ok"
           /\ LET st == stmts[objectStore[last'.h]]
              IN  tables' = [tables EXCEPT ![StoreOf(st.conn)].rows =
                                Append(@, trail[last'.h].values)] ]_vars

\* C8 witness: the sequence has run and its row is the last of the table.
C8_Witness ==
    /\ last.op = "stepFinalize" /\ last.outcome = "ok"
    /\ trail[last.h].phase = "inserted"
    /\ LET rows == tables[StoreOf(stmts[objectStore[last.h]].conn)].rows
       IN  rows # <<>> /\ rows[Len(rows)] = trail[last.h].values
                       /\ rows[Len(rows)] \in GoodBinds

\* C9 (as claimed): no wrapper returns the connection object or a statement
\* object.
C9_NoLiveResourceReturned ==
    last.ret.t \notin {"Database", "PreparedStatement"}

\* C10 (as claimed): while a connect call is between its start and its end, no
\* other call is serviced: the next step is that call's completion.
C10_ConnectRunsToCompletion ==
    [][ pending > 0 => (last'.op = "connectResume" /\ pending' = pending - 1) ]_vars


\* C11 (as claimed): at most one connection is open and not closed, and it is
\* the one db refers to.
C11_SingleOpenConnection ==
    \A c \in ConnIds : connState[c] = "open" => db = c


\* C12 (as claimed): a call that ends in an error leaves db and objectStore as
\* they were immediately before the call; for a failed connect, whose call
\* began with db empty, db is empty when it rejects.
C12_ErrorLeavesStateAsBefore ==
    [][ (last'.outcome \notin {"ok", "pending"})
          => /\ db' = db
             /\ objectStore' = objectStore
             /\ (last'.op = "connectResume" => db' = Null) ]_vars

\* C13 (as claimed): a connect call that settles either resolves with the
\* connection now stored in db, or rejects with db empty.
C13_ConnectTwoOutcomes ==
    [][ (last'.op \in {"connect", "connectResume"} /\ last'.outcome # "pending")
          => \/ /\ last'.outcome = "ok"
                /\ db' # Null
                /\ last'.ret = RetDatabase(db')
             \/ /\ last'.outcome \in {"InitError", "Error: unknown error"}
                /\ db' = Null ]_vars


\* C14: binding and stepReset on a registered handle leave the handle mapped
\* to the same statement, and when they return they return the handle given.
C14_BindStepResetReturnHandle ==
    [][ (last'.op \in {"bind", "stepReset"} /\ last'.h \in DOMAIN objectStore)
          => /\ last'.h \in DOMAIN objectStore'
             /\ objectStore'[last'.h] = objectStore[last'.h]
             /\ (last'.outcome = "ok" => last'.ret = RetHandle(last'.h)) ]_vars

\* A stepReset on a registered handle has returned its handle, which is still
\* registered to an open statement.
C14_Witness ==
    /\ last.op = "stepReset"
    /\ last.outcome = "ok"
    /\ last.h \in DOMAIN objectStore
    /\ last.ret = RetHandle(last.h)
    /\ IsOpen(stmts[objectStore[last.h]])


\* C18: the registry only grows.  No step removes a key of objectStore, and a
\* step that changes objectStore (adds a key or overwrites one) is a prepare.
C18_RegistryOnlyGrows ==
    [][ /\ DOMAIN objectStore \subseteq DOMAIN objectStore'
        /\ (objectStore' # objectStore => last'.op = "prepare") ]_vars

\* A statement has been finalized through its handle and the handle is still
\* a key of objectStore.
C18_Witness ==
    /\ last.op = "finalize"
    /\ last.outcome = "ok"
    /\ last.h \in DOMAIN objectStore
    /\ stmts[objectStore[last.h]].state = "finalized"

\* C19: the wrappers keep no per-handle call state.  With a connection and a
\* registered handle, a handle operation is never rejected by the wrapper: it
\* is forwarded, and fails only where the engine fails (a statement no longer
\* open, or a bind the statement does not accept), whatever calls came before.
C19_NoPerHandleCallState ==
    [][ (last'.op \in HandleOps /\ db # Null /\ last'.h \in DOMAIN objectStore)
          => LET st == stmts[objectStore[last'.h]] IN
             /\ last'.outcome \in {"ok", SQLite3Error}
             /\ (last'.op = "finalize" => last'.outcome = "ok")
             /\ (last'.op \in {"stepReset", "stepFinalize"}
                   => (last'.outcome = "ok" <=> IsOpen(st)))
             /\ (last'.op = "bind" /\ ~IsOpen(st) => last'.outcome = SQLite3Error) ]_vars

\* A stepReset was forwarded on a handle nothing had been bound to: the row of
\* unbound parameters was inserted.
C19_Witness ==
    /\ last.op = "stepReset"
    /\ last.outcome = "ok"
    /\ last.h \in DOMAIN objectStore
    /\ stmts[objectStore[last.h]].bound = NullRow
    /\ \E s \in StoreIds : \E i \in DOMAIN tables[s].rows : tables[s].rows[i] = NullRow


\* C15: exec dispatches on the shape of its first argument.  A bare string goes
\* to the engine in a two-argument call whose options are the second argument
\* of exec; an object goes alone in a one-argument call, so that its own
\* options apply and the second argument of exec has no effect.
C15_ExecDispatch ==
    [][ (last'.op = "exec" /\ db # Null)
          => LET req == last'.req
                 effective == IF req.form = "string"
                              THEN [sql |-> req.sql, bind |-> <<>>,
                                    returnValue |-> req.opts.returnValue]
                              ELSE [sql |-> req.sql, bind |-> req.bind,
                                    returnValue |-> req.returnValue]
                 r == EngineExec(db, effective)
             IN  /\ last'.argc = IF req.form = "string" THEN 2 ELSE 1
                 /\ IF r.err # "none"
                    THEN last'.outcome = r.err /\ tables' = tables
                    ELSE /\ last'.outcome = "ok"
                         /\ last'.ret = r.ret
                         /\ tables' = r.tables ]_vars

\* An object request was sent with options beside it: it went to the engine
\* alone, and the options beside it (which ask for the rows) were ignored.
C15_Witness ==
    /\ last.op = "exec"
    /\ last.outcome = "ok"
    /\ last.req.form = "object"
    /\ last.req.opts = RowsOpts
    /\ last.argc = 1
    /\ last.ret = RetDatabase(db)


\* C16: a connect that opens a database constructs it on the persistent
\* (OPFS) store exactly when the engine has `opfs`, and on a transient store
\* of its own otherwise; the database it opened is the one it stores in db and
\* returns.  (StoreOf reads the file a connection is on from its class.)
C16_StoreSelection ==
    [][ (last'.op = "connectResume" /\ last'.outcome = "ok")
          => /\ db' # Null
             /\ connState[db'] = "unused"
             /\ connState'[db'] = "open"
             /\ (connKind'[db'] = "OpfsDb" <=> opfs)
             /\ (connKind'[db'] = "DB" <=> ~opfs)
             /\ last'.ret = RetDatabase(db') ]_vars

\* The first connect has completed without OPFS: db is the transient database
\* it opened.
C16_Witness ==
    /\ last.op = "connectResume"
    /\ last.outcome = "ok"
    /\ initCount = 1
    /\ ~opfs
    /\ db # Null
    /\ connState[db] = "open"
    /\ connKind[db] = "DB"


\* The step is the worker servicing the call `call` of handler k.
Serviced(k, call) == Serving(k, call) /\ app'.inbox = Tail(app.inbox)

\* C17: the value the execute handler reads is the largest id in the users
\* table when selectValue is serviced, or 0 when the table has no row: the
\* answer is absent for the empty table and the handler takes it as 0.
C17_ExecuteReadsMaxId ==
    [][ \A k \in Clicks :
          /\ (Serviced(k, "selectMax") /\ last'.outcome = "ok")
                => LET rows == tables[StoreOf(db)].rows IN
                   /\ tables[StoreOf(db)].exists
                   /\ (rows = <<>> => last'.ret = RetNull)
                   /\ (MaxId(rows) > 0 => last'.ret = RetNumber(MaxId(rows)))
                   /\ app'.hs[k].res.ret = last'.ret
          /\ (app.hs[k].pc = "selectMax" /\ app'.hs[k].pc = "insert")
                => LET ret == app.hs[k].res.ret IN
                   /\ (ret = RetNull => app'.hs[k].max = 0)
                   /\ (ret.t = "number" => app'.hs[k].max = ret.n) ]_vars

\* An execute handler has read 1 from a table whose only row has id 1; the
\* handler before it read 0 from the empty table.
C17_Witness ==
    \E k \in Clicks, j \in Clicks :
       /\ app.hs[k].pc = "insert"
       /\ app.hs[k].max = 1
       /\ tables[StoreOf(db)].rows = <<(<<1, "Alice1">>)>>
       /\ app.hs[j].pc = "done"
       /\ app.hs[j].max = 0


\* What the worker has serviced on handle h since the prepare that issued it
\* last: nothing yet, or one bind and nothing else.
OnlyPrepared(h) == h \in DOMAIN trail /\ trail[h].phase = "prepared"
OnlyBound(h) == h \in DOMAIN trail /\ trail[h].phase = "bound"

\* C20 (as claimed): for each handle of an execute handler the worker services
\* prepare, then bind, then stepFinalize: when it services the handler's bind
\* of a handle, it has serviced on that handle the prepare and nothing since,
\* and when it services the stepFinalize, that bind and nothing since.
C20_PerHandleOrder ==
    [][ \A k \in Clicks :
          /\ Serviced(k, "bind1") => OnlyPrepared(app.hs[k].h1)
          /\ Serviced(k, "bind2") => OnlyPrepared(app.hs[k].h2)
          /\ Serviced(k, "step1") => OnlyBound(app.hs[k].h1)
          /\ Serviced(k, "step2") => OnlyBound(app.hs[k].h2) ]_vars


\* C21 (as claimed): a handle operation that succeeds on a handle prepare has
\* returned operates on the statement of that prepare: whichever prepare
\* returned the handle, its statement is the one the handle resolves to.
C21_HandleResolvesToItsStatement ==
    [][ (last'.op \in HandleOps /\ last'.outcome = "ok" /\ last'.h \in Issued)
          => \A i \in DOMAIN stmts :
                stmts[i].handle = last'.h => objectStore[last'.h] = i ]_vars


\* C22 (as claimed): once the closeDB of the unmount has returned, and no
\* button was clicked after the unmount, db is empty, also when a connect
\* issued before the unmount was still suspended at its await.
C22_ClosedStaysClosed ==
    \A k \in Clicks :
       ( /\ app.hs[k].pc = "closeDB"
         /\ app.hs[k].res.outcome = "ok"
         /\ \A j \in Clicks : j > k => app.hs[j].pc = "idle" )
       => db = Null


\* C23 (as claimed): with a connection open, a handle operation on a handle
\* that was issued only for statements of connections closed since then fails.
C23_StaleHandleRejected ==
    [][ ( /\ last'.op \in HandleOps
          /\ db # Null
          /\ last'.h \in Issued
          /\ \A i \in DOMAIN stmts :
                stmts[i].handle = last'.h
                   => stmts[i].conn # db /\ connState[stmts[i].conn] = "closed" )
          => last'.outcome # "ok" ]_vars


\* C24 (as claimed): the rows the execute handlers insert have pairwise
\* distinct ids, also when the calls of two clicks overlap.
C24_DistinctIds ==
    \A s \in StoreIds : \A i, j \in DOMAIN tables[s].rows :
        i # j => tables[s].rows[i][1] # tables[s].rows[j][1]


\* C25: only connect (at its start or when it resumes) and close change db,
\* and only prepare changes objectStore; exec, selectValue, binding, stepReset,
\* stepFinalize and finalize leave both as they were, whether they return or
\* throw.
C25_Frame ==
    [][ /\ (db' # db => last'.op \in {"connect", "connectResume", "close"})
        /\ (objectStore' # objectStore => last'.op = "prepare")
        /\ (last'.op \in {"exec", "selectValue", "bind", "stepReset", "stepFinalize", "finalize"}
              => db' = db /\ objectStore' = objectStore) ]_vars

\* stepFinalize has inserted a row and released its statement: db is the
\* connection of the statement and the handle is registered as before.
C25_Witness ==
    /\ last.op = "stepFinalize"
    /\ last.outcome = "ok"
    /\ last.h \in DOMAIN objectStore
    /\ stmts[objectStore[last.h]].state = "finalized"
    /\ stmts[objectStore[last.h]].conn = db
    /\ tables[StoreOf(db)].rows # <<>>

====
